---- MODULE Spec2Model ----
(***************************************************************************)
(* A model of src/app/actions.ts: the storyboard job (generateStoryboard)  *)
(* and its five stages.                                                    *)
(*                                                                         *)
(* Text is a sequence of one-character strings; the fixed phrases of the   *)
(* code ("Failed to generate", "ERROR: ", the bucket URL prefix) are       *)
(* single letters of that alphabet.  A JavaScript value (string | number | *)
(* null) is a record [t, n, s].  Time is counted in ticks of 0.1 ms.       *)
(***************************************************************************)
EXTENDS Integers, Sequences, FiniteSets, TLC

VARIABLES
    pc,                 \* position of the job in generateStoryboard
    file,               \* formData.get('audioFile'): TRUE when a file was posted
    ffmpegBin,          \* the module constant ffmpegBin: "" when not resolved
    words,              \* WordInfo[] returned by runStep1_Transcribe
    scenes,             \* Scene[] returned by runStep2_ChunkScript
    parsed,             \* parsed.scenes of the text model's response (step 3)
    scenesWithPrompts,  \* Scene[] returned by runStep3_AnalyzeAndGeneratePrompts
    finalScenes,        \* finalScenes of runStep4_GenerateImages
    s5,                 \* locals of runStep5_CreateVideo
    tempDir,            \* temp/<jobId>: [exists, files]
    audioBucket,        \* TRUE when the job's audio object is stored
    transcriptBucket,   \* transcripts saveTxtTranscript has stored
    chunkedBucket,      \* every scene list saveChunkedJson has stored, in order
    transcriptWrites,   \* the calls of file.save by saveTxtTranscript: [content, stored]
    chunkedWrites,      \* the calls of file.save by saveChunkedJson: [content, stored]
    imageBucket,        \* file names stored in the image bucket
    videoBucket,        \* file names stored in the video bucket
    clock,              \* Date.now(), in ticks since the job began
    log,                \* the calls made to collaborators, in order
    stagesDone,         \* the stages that have returned normally
    result,             \* what generateStoryboard returned
    rawText,            \* the argument raw of parseModelJSON
    underlying,         \* the JSON text that raw was written from (history)
    json,               \* what parseModelJSON returned, or that it threw
    jobs,               \* the invocations of generateStoryboard in one server process
    tempTree            \* the directory temp/ of the server process: [dirs, files]

vars == <<pc, file, ffmpegBin, words, scenes, parsed, scenesWithPrompts, finalScenes,
          s5, tempDir, audioBucket, transcriptBucket, transcriptWrites, chunkedBucket, chunkedWrites, imageBucket,
          videoBucket, clock, log, stagesDone, result, rawText, underlying, json,
          jobs, tempTree>>

(***************************************************************************)
(* Units and bounds                                                        *)
(***************************************************************************)
Sec == 10 * 1000                      \* ticks in one second
MaxWords == 3                         \* longest word sequence segmented

\* word texts: plain, sentence-terminal, with leading white space
WordTexts == { <<"a">>, <<"b", ".">>, <<" ", "c">> }
\* a word lasts 1 s, 7 s or 7.5 s and starts 0 s or 0.5 s after the word before it
WordDurations == { Sec, 7 * Sec, 7 * Sec + Sec \div 2 }
WordGaps == { 0, Sec \div 2 }

(***************************************************************************)
(* JavaScript values                                                       *)
(***************************************************************************)
Null == [t |-> "null", n |-> 0, s |-> <<>>]
Str(s) == [t |-> "str", n |-> 0, s |-> s]
Num(n) == [t |-> "num", n |-> n, s |-> <<>>]

\* !v
Truthy(v) ==
    CASE v.t = "null" -> FALSE
      [] v.t = "str" -> v.s # <<>>
      [] v.t = "num" -> v.n # 0
      [] OTHER -> TRUE

(***************************************************************************)
(* Text                                                                    *)
(***************************************************************************)
IsSpace(c) == c \in {" ", "\n", "\t"}

RECURSIVE TrimStart(_)
TrimStart(s) ==
    IF s # <<>> /\ IsSpace(Head(s)) THEN TrimStart(Tail(s)) ELSE s

RECURSIVE TrimEnd(_)
TrimEnd(s) ==
    IF s # <<>> /\ IsSpace(s[Len(s)]) THEN TrimEnd(SubSeq(s, 1, Len(s) - 1)) ELSE s

\* String.prototype.trim
Trim(s) == TrimEnd(TrimStart(s))

\* Array.prototype.join(' ')
RECURSIVE JoinSpace(_)
JoinSpace(toks) ==
    IF toks = <<>> THEN <<>>
    ELSE IF Len(toks) = 1 THEN toks[1]
    ELSE toks[1] \o <<" ">> \o JoinSpace(Tail(toks))

\* s.split(/\s+/) without the empty pieces: the maximal runs of non-space
RECURSIVE SplitWs(_, _)
SplitWs(s, cur) ==
    IF s = <<>> THEN (IF cur = <<>> THEN <<>> ELSE <<cur>>)
    ELSE IF IsSpace(Head(s))
         THEN (IF cur = <<>> THEN <<>> ELSE <<cur>>) \o SplitWs(Tail(s), <<>>)
         ELSE SplitWs(Tail(s), Append(cur, Head(s)))

TokensOf(s) == SplitWs(s, <<>>)

(***************************************************************************)
(* STEP 2: runStep2_ChunkScript                                            *)
(***************************************************************************)
TARGET_DURATION_SEC == 7 * Sec

\* SENTENCE_END_RE.test(token): /[.?!]|U+0964/ (U+0964 is the danda)
SENTENCE_END_RE(token) ==
    \E i \in 1..Len(token) : token[i] \in {".", "?", "!", "U+0964"}

EndHere_NoLast(token, curDuration, isLast) ==
    SENTENCE_END_RE(token) /\ curDuration >= TARGET_DURATION_SEC

EndHere_Strict(token, curDuration, isLast) ==
    \/ SENTENCE_END_RE(token) /\ curDuration > TARGET_DURATION_SEC
    \/ isLast

EndHere_ForcedSplit(token, curDuration, isLast) ==
    \/ curDuration >= TARGET_DURATION_SEC
    \/ isLast

\* lines 250-255
EndHere(token, curDuration, isLast) ==
    \/ SENTENCE_END_RE(token) /\ curDuration >= TARGET_DURATION_SEC
    \/ isLast

NewScene_Swapped(n, start, end, tokens) ==
    [scene |-> n, start_time_secs |-> end, end_time_secs |-> start,
     script |-> Trim(JoinSpace(tokens)), prompt |-> Null, image_url |-> Null]

NewScene_Unnumbered(n, start, end, tokens) ==
    [scene |-> 1, start_time_secs |-> start, end_time_secs |-> end,
     script |-> Trim(JoinSpace(tokens)), prompt |-> Null, image_url |-> Null]

\* lines 258-265
NewScene(n, start, end, tokens) ==
    [scene |-> n, start_time_secs |-> start, end_time_secs |-> end,
     script |-> Trim(JoinSpace(tokens)), prompt |-> Null, image_url |-> Null]

\* the for loop of lines 244-269, from word i on
RECURSIVE ChunkLoop(_, _, _, _, _)
ChunkLoop(ws, i, currentTokens, currentStart, acc) ==
    IF i > Len(ws) THEN acc
    ELSE LET w == ws[i]
             token == w.word
             toks == Append(currentTokens, token)
             isLast == i = Len(ws)
             curDuration == w.endTime - currentStart
         IN IF EndHere(token, curDuration, isLast) /\ Len(toks) > 0
            THEN ChunkLoop(ws, i + 1, <<>>,
                           IF ~isLast THEN ws[i + 1].startTime ELSE currentStart,
                           Append(acc, NewScene(Len(acc) + 1, currentStart, w.endTime, toks)))
            ELSE ChunkLoop(ws, i + 1, toks, currentStart, acc)

ChunkScript(ws) ==
    IF Len(ws) = 0 THEN <<>> ELSE ChunkLoop(ws, 1, <<>>, ws[1].startTime, <<>>)

SaveChunkedJson_Stale(list, saveOk) ==
    /\ chunkedBucket' = IF saveOk THEN Append(chunkedBucket, scenes) ELSE chunkedBucket
    /\ chunkedWrites' = Append(chunkedWrites, [content |-> scenes, stored |-> saveOk])

\* saveChunkedJson: the write may fail; the failure is logged and swallowed
SaveChunkedJson(list, saveOk) ==
    /\ chunkedBucket' = IF saveOk THEN Append(chunkedBucket, list) ELSE chunkedBucket
    /\ chunkedWrites' = Append(chunkedWrites, [content |-> list, stored |-> saveOk])

(***************************************************************************)
(* The job boundary: generateStoryboard's try / catch                      *)
(***************************************************************************)
NoResult == [kind |-> "none", error |-> <<>>, scenes |-> <<>>, video |-> <<>>]

Event(op, n) == [op |-> op, n |-> n]

ResultOfThrow_Escapes(message) ==
    [kind |-> "escaped", error |-> message, scenes |-> <<>>, video |-> <<>>]

\* catch (error) { return { error: error?.message || '...' } }
ResultOfThrow(message) ==
    [kind |-> "error",
     error |-> IF message # <<>> THEN message
               ELSE <<"An unknown server error occurred.">>,
     scenes |-> <<>>, video |-> <<>>]

\* return { scenes: finalScenes, video: videoUrl }
ResultOfReturn(list, videoUrl) ==
    [kind |-> "ok", error |-> <<>>, scenes |-> list, video |-> videoUrl]

Throws_KeepGoing(message) ==
    /\ result' = result
    /\ pc' = "step4"

\* an exception thrown by a stage reaches the catch block of the job
Throws(message) ==
    /\ result' = ResultOfThrow(message)
    /\ pc' = "done"

\* messages of errors raised by collaborators (one of them has no message)
CollaboratorErrors == { <<"quota exceeded">>, <<>> }

(***************************************************************************)
(* STEP 1: runStep1_Transcribe                                             *)
(***************************************************************************)
\* lines 208-220: a recognised word is kept when it has a word and both offsets
RECURSIVE KeepWords(_)
KeepWords(raw) ==
    IF raw = <<>> THEN <<>>
    ELSE IF Head(raw).word # <<>> THEN <<Head(raw)>> \o KeepWords(Tail(raw))
    ELSE KeepWords(Tail(raw))

W(word, startTime, endTime) ==
    [word |-> word, startTime |-> startTime, endTime |-> endTime]

\* what the recogniser may answer in a job
SttResults ==
    { <<>>,
      <<W(<<>>, 0, Sec)>>,
      <<W(<<"a">>, 0, Sec), W(<<"b", ".">>, Sec, 8 * Sec + Sec \div 2)>>,
      <<W(<<"a", ".">>, 0, 7 * Sec), W(<<>>, 7 * Sec, 7 * Sec), W(<<"b">>, 7 * Sec, 8 * Sec)>>,
      <<W(<<"a", ".">>, 0, 7 * Sec), W(<<"b", "?">>, 7 * Sec, 15 * Sec),
        W(<<"c">>, 15 * Sec, 16 * Sec)>> }

SaveTxtTranscript(ws, saveOk) ==
    /\ transcriptBucket' = IF saveOk THEN Append(transcriptBucket, ws) ELSE transcriptBucket
    /\ transcriptWrites' = Append(transcriptWrites, [content |-> ws, stored |-> saveOk])

Step1 ==
    /\ pc = "start"
    /\ UNCHANGED <<jobs, tempTree, rawText, underlying, json, file, ffmpegBin, scenes, parsed, scenesWithPrompts, finalScenes, s5,
                   tempDir, chunkedBucket, chunkedWrites, imageBucket, videoBucket, clock>>
    /\ IF ~file
       THEN /\ Throws(<<"No audio file found.">>)
            /\ UNCHANGED <<words, audioBucket, transcriptBucket, transcriptWrites, log, stagesDone>>
       ELSE \/ \E e \in CollaboratorErrors :        \* the upload stream fails
                 /\ Throws(e)
                 /\ log' = Append(log, Event("upload audio", 0))
                 /\ UNCHANGED <<words, audioBucket, transcriptBucket, transcriptWrites, stagesDone>>
            \/ \E e \in CollaboratorErrors :        \* the recogniser fails
                 /\ Throws(e)
                 /\ audioBucket' = TRUE
                 /\ log' = log \o <<Event("upload audio", 0), Event("recognize", 0)>>
                 /\ UNCHANGED <<words, transcriptBucket, transcriptWrites, stagesDone>>
            \/ \E raw \in SttResults :
                 /\ audioBucket' = TRUE
                 /\ log' = log \o <<Event("upload audio", 0), Event("recognize", 0)>>
                 /\ IF Len(KeepWords(raw)) = 0
                    THEN /\ Throws(<<"Transcription produced zero words.">>)
                         /\ UNCHANGED <<words, transcriptBucket, transcriptWrites, stagesDone>>
                    ELSE /\ words' = KeepWords(raw)
                         /\ \E saveOk \in BOOLEAN : SaveTxtTranscript(words', saveOk)
                         /\ stagesDone' = stagesDone \cup {1}
                         /\ pc' = "step2"
                         /\ UNCHANGED result

(***************************************************************************)
(* STEP 2 as a stage of the job                                            *)
(***************************************************************************)
Step2 ==
    /\ pc = "step2"
    /\ scenes' = ChunkScript(words)
    /\ IF Len(words) = 0
       THEN UNCHANGED <<chunkedBucket, chunkedWrites>>
       ELSE \E saveOk \in BOOLEAN : SaveChunkedJson(scenes', saveOk)
    /\ stagesDone' = stagesDone \cup {2}
    /\ pc' = "step3"
    /\ UNCHANGED <<jobs, tempTree, rawText, underlying, json, file, ffmpegBin, words, parsed, scenesWithPrompts, finalScenes, s5,
                   tempDir, audioBucket, transcriptBucket, transcriptWrites, imageBucket, videoBucket,
                   clock, log, result>>

(***************************************************************************)
(* STEP 3: runStep3_AnalyzeAndGeneratePrompts                              *)
(***************************************************************************)
Digit == <<"0", "1", "2", "3", "4", "5", "6", "7", "8", "9">>

IsDigit(c) == \E d \in 1..10 : Digit[d] = c

DigitValue(c) == (CHOOSE d \in 1..10 : Digit[d] = c) - 1

\* String(n) for n >= 0
RECURSIVE DigitsOf(_)
DigitsOf(n) ==
    IF n < 10 THEN <<Digit[n + 1]>> ELSE Append(DigitsOf(n \div 10), Digit[(n % 10) + 1])

\* sceneId.replace(/[^0-9]/g, '')
RECURSIVE OnlyDigits(_)
OnlyDigits(s) ==
    IF s = <<>> THEN <<>>
    ELSE IF IsDigit(Head(s)) THEN <<Head(s)>> \o OnlyDigits(Tail(s))
    ELSE OnlyDigits(Tail(s))

\* parseInt(digits, 10) of a string of digits that is not empty
RECURSIVE ParseDigits(_)
ParseDigits(ds) ==
    IF ds = <<>> THEN 0
    ELSE ParseDigits(SubSeq(ds, 1, Len(ds) - 1)) * 10 + DigitValue(ds[Len(ds)])

\* lines 136-143; parseInt('') is NaN, which is not finite
coerceSceneId(sceneId) ==
    CASE sceneId.t = "num" -> sceneId
      [] sceneId.t = "str" ->
            IF OnlyDigits(sceneId.s) = <<>> THEN Null
            ELSE Num(ParseDigits(OnlyDigits(sceneId.s)))
      [] OTHER -> Null

\* a ?? b
Coalesce(a, b) == IF a.t = "null" THEN b ELSE a

\* lines 145-154; obj.k is "object", "null" (null or undefined) or "other"
extractSceneId(obj) ==
    IF obj.k # "object" THEN Null
    ELSE coerceSceneId(
            Coalesce(obj.scene_id, Coalesce(obj.scene, Coalesce(obj.id, Coalesce(obj.index, Null)))))

\* typeof scenePrompt.prompt === 'string' ? scenePrompt.prompt.trim() : ''
PRaw(obj) == IF obj.prompt.t = "str" THEN Trim(obj.prompt.s) ELSE <<>>

EndsWith(s, suffix) ==
    /\ Len(s) >= Len(suffix)
    /\ SubSeq(s, Len(s) - Len(suffix) + 1, Len(s)) = suffix

AR == <<"1", "6", ":", "9">>

\* /16:9\.?$/i.test(pRaw)
EndsWithAR(pRaw) == EndsWith(pRaw, AR) \/ EndsWith(pRaw, AR \o <<".">>)

PromptFinal_Always(pRaw) ==
    IF EndsWith(pRaw, <<".">>) THEN pRaw \o <<" ">> \o AR \o <<".">>
    ELSE pRaw \o <<".", " ">> \o AR \o <<".">>

\* lines 388-390
PromptFinal(pRaw) ==
    IF EndsWithAR(pRaw) THEN pRaw
    ELSE IF EndsWith(pRaw, <<".">>) THEN pRaw \o <<" ">> \o AR \o <<".">>
    ELSE pRaw \o <<".", " ">> \o AR \o <<".">>

MapSet_KeepFirst(map, key, value) ==
    [k \in DOMAIN map \cup {key} |-> IF k \in DOMAIN map THEN map[k] ELSE value]

\* promptMap.set(key, value): a Map is modelled as a function on its keys
MapSet(map, key, value) ==
    [k \in DOMAIN map \cup {key} |-> IF k = key THEN value ELSE map[k]]

EmptyMap == [k \in {} |-> <<>>]

\* lines 384-393: the first forEach, over the records from index i on
RECURSIVE ByIdentifier(_, _, _)
ByIdentifier(records, i, map) ==
    IF i > Len(records) THEN map
    ELSE LET sid == extractSceneId(records[i])
             pRaw == PRaw(records[i])
         IN IF Truthy(sid) /\ pRaw # <<>>
            THEN ByIdentifier(records, i + 1, MapSet(map, sid, PromptFinal(pRaw)))
            ELSE ByIdentifier(records, i + 1, map)

PositionKey_Zero(idx) == Num(idx)

\* line 403: idx is the 0-based index of forEach
PositionKey(idx) == Num(idx + 1)

\* lines 397-404: the second forEach
RECURSIVE ByPosition(_, _, _)
ByPosition(records, i, map) ==
    IF i > Len(records) THEN map
    ELSE LET pRaw == PRaw(records[i])
         IN IF pRaw = <<>>
            THEN ByPosition(records, i + 1, map)
            ELSE ByPosition(records, i + 1, MapSet(map, PositionKey(i - 1), PromptFinal(pRaw)))

PromptMap_Merged(records) ==
    ByPosition(records, 1, ByIdentifier(records, 1, EmptyMap))

\* lines 382-405
PromptMap(records) ==
    LET byId == ByIdentifier(records, 1, EmptyMap)
    IN IF Cardinality(DOMAIN byId) = 0 THEN ByPosition(records, 1, EmptyMap) ELSE byId

Placeholder_Unnumbered(n) == <<"Failed to generate", " prompt for scene ">>

\* line 409
Placeholder(n) == <<"Failed to generate", " prompt for scene ">> \o DigitsOf(n)

\* lines 407-410: promptMap.get(scene.scene) || placeholder
WithPrompt(scene, map) ==
    [scene EXCEPT !.prompt =
        IF Num(scene.scene) \in DOMAIN map /\ map[Num(scene.scene)] # <<>>
        THEN Str(map[Num(scene.scene)])
        ELSE Str(Placeholder(scene.scene))]

UpdatedScenes(list, records) ==
    [i \in 1..Len(list) |-> WithPrompt(list[i], PromptMap(records))]

\* a record of the model: an object with identifier fields and a prompt, or null
Rec(scene_id, scene, prompt) ==
    [k |-> "object", scene_id |-> scene_id, scene |-> scene, id |-> Null,
     index |-> Null, prompt |-> prompt]

NullRec == [k |-> "null", scene_id |-> Null, scene |-> Null, id |-> Null,
            index |-> Null, prompt |-> Null]

\* what the text model answers: it rejects the call, answers without text (with
\* or without a block reason), answers text that is no JSON, JSON without the
\* analysis or without the scenes array, or JSON of the expected shape
Response(kind, records) == [kind |-> kind, scenes |-> records]

FailedResponses ==
    { Response(k, <<>>) :
        k \in {"rejects", "blocked", "empty", "not json", "no analysis", "no array"} }

Step3Throws(resp) ==
    resp.kind # "ok" \/ \E i \in 1..Len(resp.scenes) : resp.scenes[i].k = "null"

\* the message of the error runStep3 throws on resp
Step3Error(resp, e) ==
    CASE resp.kind = "rejects" -> e
      [] resp.kind = "blocked" -> <<"Gemini safety blocked the request: ", "SAFETY">>
      [] resp.kind = "empty" -> <<"Gemini returned an empty response for prompt generation.">>
      [] resp.kind = "not json" -> <<"Gemini returned malformed JSON: ", "Unexpected token">>
      [] resp.kind \in {"no analysis", "no array"} ->
            <<"Gemini returned malformed JSON for prompt generation.">>
      [] OTHER -> <<"Cannot read properties of null (reading 'prompt')">>

Step3With(resp) ==
    /\ pc = "step3"
    /\ log' = Append(log, Event("generateContent", 0))
    /\ UNCHANGED <<jobs, tempTree, rawText, underlying, json, file, ffmpegBin, words, scenes, finalScenes, s5, tempDir, audioBucket,
                   transcriptBucket, transcriptWrites, imageBucket, videoBucket, clock>>
    /\ IF Step3Throws(resp)
       THEN /\ \E e \in (IF resp.kind = "rejects" THEN CollaboratorErrors ELSE { <<>> }) :
                 Throws(Step3Error(resp, e))
            /\ parsed' = IF resp.kind = "ok" THEN resp.scenes ELSE parsed
            /\ UNCHANGED <<scenesWithPrompts, chunkedBucket, chunkedWrites, stagesDone>>
       ELSE /\ parsed' = resp.scenes
            /\ scenesWithPrompts' = UpdatedScenes(scenes, resp.scenes)
            /\ \E saveOk \in BOOLEAN : SaveChunkedJson(scenesWithPrompts', saveOk)
            /\ stagesDone' = stagesDone \cup {3}
            /\ pc' = "step4"
            /\ UNCHANGED result

(***************************************************************************)
(* The sanitizer of the text model's output: parseModelJSON                *)
(*                                                                         *)
(* Of JSON the model keeps objects, arrays, strings without escapes and    *)
(* one-digit numbers.  The fence marker of three backquotes is the letter  *)
(* "FENCE", the tag "json" is one letter, and the typographic quotation    *)
(* marks are the letters "U+201C", "U+201D", "U+2018" and "U+2019".        *)
(***************************************************************************)
BadToken == <<"bad">>

\* the tokens of s as JSON.parse reads them: white space between tokens is
\* dropped, a string runs to the next double quote and may hold no control
\* character; BadToken stands for what no JSON token begins with
RECURSIVE JsonTokens(_, _, _, _)
JsonTokens(s, cur, inString, acc) ==
    IF s = <<>> THEN (IF inString THEN Append(acc, BadToken) ELSE acc)
    ELSE LET c == Head(s)
         IN IF inString
            THEN IF c = "\""
                 THEN JsonTokens(Tail(s), <<>>, FALSE, Append(acc, Append(cur, c)))
                 ELSE IF c \in {"\n", "\t"} THEN Append(acc, BadToken)
                 ELSE JsonTokens(Tail(s), Append(cur, c), TRUE, acc)
            ELSE IF IsSpace(c) THEN JsonTokens(Tail(s), <<>>, FALSE, acc)
                 ELSE IF c = "\"" THEN JsonTokens(Tail(s), <<c>>, TRUE, acc)
                 ELSE IF c \in {"{", "}", "[", "]", ",", ":", "1"}
                 THEN JsonTokens(Tail(s), <<>>, FALSE, Append(acc, <<c>>))
                 ELSE Append(acc, BadToken)

IsStringToken(t) == t # BadToken /\ Head(t) = "\""

Is(toks, i, c) == i <= Len(toks) /\ toks[i] = <<c>>

\* the JSON grammar: the index after the value (the elements, the members)
\* that begins at token i, or 0 when none begins there
RECURSIVE JsonValue(_, _), JsonElements(_, _), JsonMembers(_, _)
JsonValue(toks, i) ==
    IF i > Len(toks) THEN 0
    ELSE IF toks[i] = <<"1">> \/ IsStringToken(toks[i]) THEN i + 1
    ELSE IF toks[i] = <<"[">>
         THEN (IF Is(toks, i + 1, "]") THEN i + 2 ELSE JsonElements(toks, i + 1))
    ELSE IF toks[i] = <<"{">>
         THEN (IF Is(toks, i + 1, "}") THEN i + 2 ELSE JsonMembers(toks, i + 1))
    ELSE 0

JsonElements(toks, i) ==
    LET j == JsonValue(toks, i)
    IN IF j = 0 THEN 0
       ELSE IF Is(toks, j, ",") THEN JsonElements(toks, j + 1)
       ELSE IF Is(toks, j, "]") THEN j + 1
       ELSE 0

JsonMembers(toks, i) ==
    IF ~(i <= Len(toks) /\ IsStringToken(toks[i]) /\ Is(toks, i + 1, ":")) THEN 0
    ELSE LET j == JsonValue(toks, i + 2)
         IN IF j = 0 THEN 0
            ELSE IF Is(toks, j, ",") THEN JsonMembers(toks, j + 1)
            ELSE IF Is(toks, j, "}") THEN j + 1
            ELSE 0

NoJson == [ok |-> FALSE, value |-> <<>>]

\* JSON.parse(text): the value, written as the tokens of the text, or a throw
JSONParse(text) ==
    LET toks == JsonTokens(text, <<>>, FALSE, <<>>)
    IN IF JsonValue(toks, 1) = Len(toks) + 1 THEN [ok |-> TRUE, value |-> toks]
       ELSE NoJson

\* the length of the match of /FENCE(?:json)?\n/ at p, or 0
FenceOpen(s, p) ==
    IF s[p] # "FENCE" THEN 0
    ELSE IF p + 1 <= Len(s) /\ s[p + 1] = "\n" THEN 2
    ELSE IF p + 2 <= Len(s) /\ s[p + 1] = "json" /\ s[p + 2] = "\n" THEN 3
    ELSE 0

FenceClosers(s, from) == { q \in from..Len(s) : s[q] = "FENCE" }

Least(S) == CHOOSE x \in S : \A y \in S : x <= y

\* lines 122-128
extractPossibleJSON(text) ==
    IF text = <<>> THEN text
    ELSE LET trimmed == Trim(text)
             opens == { p \in 1..Len(trimmed) :
                          /\ FenceOpen(trimmed, p) > 0
                          /\ FenceClosers(trimmed, p + FenceOpen(trimmed, p)) # {} }
         IN IF opens = {} THEN trimmed
            ELSE LET p == Least(opens)
                     from == p + FenceOpen(trimmed, p)
                     group == SubSeq(trimmed, from, Least(FenceClosers(trimmed, from)) - 1)
                 IN IF group # <<>> THEN Trim(group) ELSE trimmed

\* .replace(/,\s*([}\]])/g, '$1')
RECURSIVE StripTrailingCommas(_)
StripTrailingCommas(s) ==
    IF s = <<>> THEN <<>>
    ELSE LET rest == TrimStart(Tail(s))
         IN IF Head(s) = "," /\ rest # <<>> /\ Head(rest) \in {"}", "]"}
            THEN <<Head(rest)>> \o StripTrailingCommas(Tail(rest))
            ELSE <<Head(s)>> \o StripTrailingCommas(Tail(s))

TypographicQuotes == {"U+201C", "U+201D", "U+2018", "U+2019"}

\* .replace(/U+201C|U+201D|U+2018|U+2019/g, '"')
StraightenQuotes(s) ==
    [i \in 1..Len(s) |-> IF s[i] \in TypographicQuotes THEN "\"" ELSE s[i]]

\* lines 130-134
removeTrailingCommas(jsonLike) == StraightenQuotes(StripTrailingCommas(jsonLike))

\* lines 156-163
parseModelJSON(raw) ==
    IF JSONParse(raw).ok THEN JSONParse(raw)
    ELSE JSONParse(removeTrailingCommas(extractPossibleJSON(raw)))

(***************************************************************************)
(* STEP 4: runStep4_GenerateImages                                         *)
(***************************************************************************)
SLEEP_BETWEEN_IMAGES_SEC == 30

StartsWith(s, prefix) == Len(s) >= Len(prefix) /\ SubSeq(s, 1, Len(prefix)) = prefix

\* line 427
NoValidPrompt(scene) ==
    ~Truthy(scene.prompt) \/ StartsWith(scene.prompt.s, <<"Failed to generate">>)

\* String(n).padStart(3, '0')
PadStart3(ds) ==
    IF Len(ds) >= 3 THEN ds
    ELSE IF Len(ds) = 2 THEN <<"0">> \o ds
    ELSE <<"0", "0">> \o ds

\* line 454: `scene_${...}_${Date.now()}.png`
SceneFile(n, now) ==
    <<"scene_">> \o PadStart3(DigitsOf(n)) \o <<"_">> \o DigitsOf(now) \o <<".png">>

\* line 459
PublicUrl(bucket, filename) ==
    <<"https:", "/", "/", "storage.googleapis.com", "/", bucket, "/">> \o filename

\* line 470: `ERROR: ${error?.message || 'Unknown image generation error'}`
ErrorMarker(message) ==
    <<"ERROR: ">> \o (IF message # <<>> THEN message
                      ELSE <<"Unknown image generation error">>)

WithImage(scene, url) == [scene EXCEPT !.image_url = Str(url)]

NextScene4_Last == scenesWithPrompts[Len(scenesWithPrompts)]

NextScene4 == scenesWithPrompts[Len(finalScenes) + 1]

Step4Frame ==
    UNCHANGED <<jobs, tempTree, rawText, underlying, json, file, ffmpegBin, words, scenes, parsed, scenesWithPrompts, s5, tempDir,
                audioBucket, transcriptBucket, transcriptWrites, chunkedBucket, chunkedWrites, videoBucket, stagesDone,
                result, pc>>

Sleep_Skipped == clock' = clock

\* lines 465 and 473
Sleep == clock' = clock + SLEEP_BETWEEN_IMAGES_SEC * 1000

AfterFailure_Unmarked(list, scene, message) == Append(list, scene)

\* lines 466-471: the catch block of one scene
AfterFailure(list, scene, message) ==
    Append(list, WithImage(scene, ErrorMarker(message)))

\* one iteration of the for loop of lines 426-475
Step4Scene ==
    /\ pc = "step4"
    /\ Len(finalScenes) < Len(scenesWithPrompts)
    /\ Step4Frame
    /\ LET scene == NextScene4
           call == Event("generateImages", scene.scene)
           save == Event("save image", scene.scene)
           sleep == Event("sleep", scene.scene)
       IN IF NoValidPrompt(scene)
          THEN /\ finalScenes' = Append(finalScenes, scene)
               /\ UNCHANGED <<imageBucket, clock, log>>
          ELSE \/ \E e \in CollaboratorErrors :          \* generateImages rejects
                    /\ finalScenes' = AfterFailure(finalScenes, scene, e)
                    /\ log' = log \o <<call, sleep>>
                    /\ Sleep
                    /\ UNCHANGED imageBucket
               \/ /\ finalScenes' =                      \* no image bytes
                        AfterFailure(finalScenes, scene, <<"Imagen returned no image data.">>)
                  /\ log' = log \o <<call, sleep>>
                  /\ Sleep
                  /\ UNCHANGED imageBucket
               \/ \E e \in CollaboratorErrors :          \* file.save rejects
                    /\ finalScenes' = AfterFailure(finalScenes, scene, e)
                    /\ log' = log \o <<call, save, sleep>>
                    /\ Sleep
                    /\ UNCHANGED imageBucket
               \/ LET filename == SceneFile(scene.scene, clock)
                  IN /\ imageBucket' = imageBucket \cup {filename}
                     /\ finalScenes' =
                           Append(finalScenes, WithImage(scene, PublicUrl("IMAGE_BUCKET", filename)))
                     /\ log' = log \o <<call, save, sleep>>
                     /\ Sleep

Step4Save_Early ==
    /\ pc = "step4"
    /\ \E saveOk \in BOOLEAN : SaveChunkedJson(finalScenes, saveOk)
    /\ stagesDone' = stagesDone \cup {4}
    /\ pc' = "s5_assert"
    /\ UNCHANGED <<jobs, tempTree, rawText, underlying, json, file, ffmpegBin, words, scenes, parsed, scenesWithPrompts, finalScenes,
                   s5, tempDir, audioBucket, transcriptBucket, transcriptWrites, imageBucket, videoBucket,
                   clock, log, result>>

Step4Save_SaveRequired ==
    /\ pc = "step4"
    /\ Len(finalScenes) = Len(scenesWithPrompts)
    /\ \E saveOk \in BOOLEAN :
          /\ SaveChunkedJson(finalScenes, saveOk)
          /\ IF saveOk
             THEN /\ stagesDone' = stagesDone \cup {4}
                  /\ pc' = "s5_assert"
                  /\ UNCHANGED result
             ELSE /\ Throws(<<"storage unavailable">>)
                  /\ UNCHANGED stagesDone
    /\ UNCHANGED <<jobs, tempTree, rawText, underlying, json, file, ffmpegBin, words, scenes, parsed, scenesWithPrompts, finalScenes,
                   s5, tempDir, audioBucket, transcriptBucket, transcriptWrites, imageBucket, videoBucket,
                   clock, log>>

\* lines 477-479
Step4Save ==
    /\ pc = "step4"
    /\ Len(finalScenes) = Len(scenesWithPrompts)
    /\ \E saveOk \in BOOLEAN : SaveChunkedJson(finalScenes, saveOk)
    /\ stagesDone' = stagesDone \cup {4}
    /\ pc' = "s5_assert"
    /\ UNCHANGED <<jobs, tempTree, rawText, underlying, json, file, ffmpegBin, words, scenes, parsed, scenesWithPrompts, finalScenes,
                   s5, tempDir, audioBucket, transcriptBucket, transcriptWrites, imageBucket, videoBucket,
                   clock, log, result>>

(***************************************************************************)
(* STEP 5: runStep5_CreateVideo                                            *)
(***************************************************************************)
\* new URL(s) succeeds when s begins with a scheme: "https:" and "ERROR:" are
\* both schemes, and the text after "ERROR:" is then an opaque path
UrlParses(s) == s # <<>> /\ Head(s) \in {"https:", "ERROR: "}

\* new URL(s).pathname
UrlPathname(s) ==
    IF Head(s) = "https:" THEN SubSeq(s, 5, Len(s)) ELSE <<" ">> \o Tail(s)

\* path.basename(p): what follows the last "/"
RECURSIVE Basename(_)
Basename(p) ==
    IF \E i \in 1..Len(p) : p[i] = "/" THEN Basename(Tail(p)) ELSE p

Max(a, b) == IF a >= b THEN a ELSE b

MinDuration == Sec \div 20            \* 0.05 s

Duration_NoFloor(scene) == scene.end_time_secs - scene.start_time_secs

\* line 519
Duration(scene) == Max(MinDuration, scene.end_time_secs - scene.start_time_secs)

\* duration.toFixed(3): the duration rounded to the millisecond (10 ticks)
ToFixed3(d) == ((d + 5) \div 10) * 10

FileLine(name) == [kind |-> "file", name |-> name, value |-> 0]

DurationLine(d) == [kind |-> "duration", name |-> <<>>, value |-> ToFixed3(d)]

\* line 511
SkipsImage(scene) == ~Truthy(scene.image_url)

S5Frame ==
    UNCHANGED <<jobs, tempTree, rawText, underlying, json, file, ffmpegBin, words, scenes, parsed, scenesWithPrompts, finalScenes,
                audioBucket, transcriptBucket, transcriptWrites, chunkedBucket, chunkedWrites, imageBucket, clock>>

\* an error thrown inside the try block: the finally block runs next
Fails(message) ==
    /\ s5' = [s5 EXCEPT !.pending = [thrown |-> TRUE, message |-> message]]
    /\ pc' = "s5_cleanup"

S5_Assert_NoCheck ==
    /\ pc = "s5_assert"
    /\ S5Frame
    /\ log' = Append(log, Event("assertFfmpeg", 0))
    /\ UNCHANGED <<s5, tempDir, videoBucket, stagesDone, result>>
    /\ pc' = "s5_mkdir"

\* lines 33-38 and 488
S5_Assert ==
    /\ pc = "s5_assert"
    /\ S5Frame
    /\ log' = Append(log, Event("assertFfmpeg", 0))
    /\ UNCHANGED <<s5, tempDir, videoBucket, stagesDone>>
    /\ IF ffmpegBin = <<>>
       THEN Throws(<<"FFmpeg path not resolved">>)
       ELSE \/ Throws(<<"FFmpeg not found at: ">> \o ffmpegBin)
            \/ pc' = "s5_mkdir" /\ UNCHANGED result

\* line 492, before the try block
S5_Mkdir ==
    /\ pc = "s5_mkdir"
    /\ S5Frame
    /\ log' = Append(log, Event("mkdir", 0))
    /\ UNCHANGED <<s5, videoBucket, stagesDone>>
    /\ \/ Throws(<<"EACCES: permission denied, mkdir">>) /\ UNCHANGED tempDir
       \/ /\ tempDir' = [exists |-> TRUE, files |-> {}]
          /\ pc' = "s5_audio"
          /\ UNCHANGED result

\* lines 502-504
S5_Audio ==
    /\ pc = "s5_audio"
    /\ S5Frame
    /\ log' = Append(log, Event("download audio", 0))
    /\ UNCHANGED <<videoBucket, stagesDone, result>>
    /\ \/ \E e \in CollaboratorErrors : Fails(e) /\ UNCHANGED tempDir
       \/ /\ audioBucket
          /\ tempDir' = [tempDir EXCEPT !.files = @ \cup {<<"audio.wav">>}]
          /\ pc' = "s5_images"
          /\ UNCHANGED s5

\* one iteration of the for loop of lines 510-526
S5_Image ==
    /\ pc = "s5_images"
    /\ s5.i <= Len(finalScenes)
    /\ S5Frame
    /\ UNCHANGED <<videoBucket, stagesDone, result>>
    /\ LET scene == finalScenes[s5.i]
           imageFileName == Basename(UrlPathname(scene.image_url.s))
       IN IF SkipsImage(scene)
          THEN /\ s5' = [s5 EXCEPT !.i = @ + 1]
               /\ UNCHANGED <<tempDir, log, pc>>
          ELSE IF ~UrlParses(scene.image_url.s)
          THEN /\ Fails(<<"Invalid URL">>)
               /\ UNCHANGED <<tempDir, log>>
          ELSE /\ log' = Append(log, Event("download image", scene.scene))
               /\ \/ /\ imageFileName \notin imageBucket
                     /\ Fails(<<"No such object: ">> \o imageFileName)
                     /\ UNCHANGED tempDir
                  \/ \E e \in CollaboratorErrors : Fails(e) /\ UNCHANGED tempDir
                  \/ /\ imageFileName \in imageBucket
                     /\ tempDir' = [tempDir EXCEPT !.files = @ \cup {imageFileName}]
                     /\ s5' = [s5 EXCEPT
                                 !.i = @ + 1,
                                 !.lines = @ \o <<FileLine(imageFileName),
                                                  DurationLine(Duration(scene))>>,
                                 !.last = Str(imageFileName)]
                     /\ UNCHANGED pc

\* lines 529-533
S5_Manifest ==
    /\ pc = "s5_images"
    /\ s5.i > Len(finalScenes)
    /\ S5Frame
    /\ log' = Append(log, Event("write manifest", 0))
    /\ UNCHANGED <<videoBucket, stagesDone, result>>
    /\ LET content == IF Truthy(s5.last) THEN Append(s5.lines, FileLine(s5.last.s))
                      ELSE s5.lines
       IN \/ /\ Fails(<<"ENOSPC: no space left on device, write">>)
             /\ UNCHANGED tempDir
          \/ /\ s5' = [s5 EXCEPT !.lines = content]
             /\ tempDir' = [tempDir EXCEPT !.files = @ \cup {<<"inputs.txt">>}]
             /\ pc' = "s5_ffmpeg"

\* lines 537-551
S5_Ffmpeg ==
    /\ pc = "s5_ffmpeg"
    /\ S5Frame
    /\ log' = Append(log, Event("ffmpeg", 0))
    /\ UNCHANGED <<videoBucket, stagesDone, result>>
    /\ \/ Fails(<<"FFmpeg error: ", "exit code 1">>) /\ UNCHANGED tempDir
       \/ /\ tempDir' = [tempDir EXCEPT !.files = @ \cup {<<"JOB", ".mp4">>}]
          /\ pc' = "s5_upload"
          /\ UNCHANGED s5

\* lines 555-563
S5_Upload ==
    /\ pc = "s5_upload"
    /\ S5Frame
    /\ log' = Append(log, Event("upload video", 0))
    /\ UNCHANGED <<tempDir, stagesDone, result>>
    /\ \/ \E e \in CollaboratorErrors : Fails(e) /\ UNCHANGED videoBucket
       \/ /\ videoBucket' = videoBucket \cup {<<"JOB", ".mp4">>}
          /\ s5' = [s5 EXCEPT !.video = PublicUrl("VIDEO_BUCKET", <<"JOB", ".mp4">>)]
          /\ pc' = "s5_cleanup"

RmTempDir_Keep(dir) == dir

\* fs.rm(TEMP_DIR, { recursive: true, force: true })
RmTempDir(dir) == [exists |-> FALSE, files |-> {}]

\* lines 567-570, then the return or the rethrow, and lines 621-625 of the job
S5_Cleanup ==
    /\ pc = "s5_cleanup"
    /\ S5Frame
    /\ log' = Append(log, Event("rm", 0))
    /\ tempDir' = RmTempDir(tempDir)
    /\ UNCHANGED <<s5, videoBucket>>
    /\ IF s5.pending.thrown
       THEN Throws(s5.pending.message) /\ UNCHANGED stagesDone
       ELSE /\ stagesDone' = stagesDone \cup {5}
            /\ result' = ResultOfReturn(finalScenes, s5.video)
            /\ pc' = "done"

Step5 ==
    \/ S5_Assert
    \/ S5_Mkdir
    \/ S5_Audio
    \/ S5_Image
    \/ S5_Manifest
    \/ S5_Ffmpeg
    \/ S5_Upload
    \/ S5_Cleanup

NoS5 ==
    [i |-> 1, lines |-> <<>>, last |-> Null,
     pending |-> [thrown |-> FALSE, message |-> <<>>], video |-> <<>>]

(***************************************************************************)
(* Concurrent jobs: two invocations of generateStoryboard in one server    *)
(* process, sharing Date.now() and the directory temp/                     *)
(***************************************************************************)
MaxNow == 2                           \* latest millisecond at which a job starts
Invocations == {1, 2}

\* names of uploaded files
FileNames == { <<"a", ".", "w">>, <<"A", " ", ".", "m">>, <<"b">> }

LowerAlnum ==
    { "a", "b", "c", "d", "e", "f", "g", "h", "i", "j", "k", "l", "m", "n", "o", "p", "q",
      "r", "s", "t", "u", "v", "w", "x", "y", "z",
      "0", "1", "2", "3", "4", "5", "6", "7", "8", "9" }

ToLowerCase(c) == IF c = "A" THEN "a" ELSE IF c = "B" THEN "b" ELSE c

\* filename.lastIndexOf('.'), counted from 1; 0 when there is none
LastIndexOf(s, c) ==
    IF \E i \in 1..Len(s) : s[i] = c
    THEN CHOOSE i \in 1..Len(s) : s[i] = c /\ \A k \in (i + 1)..Len(s) : s[k] # c
    ELSE 0

\* replace(/-+/g, '-')
RECURSIVE CollapseHyphens(_)
CollapseHyphens(s) ==
    IF Len(s) < 2 THEN s
    ELSE IF s[1] = "-" /\ s[2] = "-" THEN CollapseHyphens(Tail(s))
    ELSE <<s[1]>> \o CollapseHyphens(Tail(s))

\* replace(/^-|-$/g, '')
TrimHyphens(s) ==
    LET t == IF s # <<>> /\ Head(s) = "-" THEN Tail(s) ELSE s
    IN IF t # <<>> /\ t[Len(t)] = "-" THEN SubSeq(t, 1, Len(t) - 1) ELSE t

\* lines 70-74
getJobId(filename) ==
    LET fileExtension == LastIndexOf(filename, ".")
        name == IF fileExtension = 0 THEN filename
                ELSE SubSeq(filename, 1, fileExtension - 1)
        lower == [i \in 1..Len(name) |-> ToLowerCase(name[i])]
        hyphened == [i \in 1..Len(lower) |->
                        IF lower[i] \in LowerAlnum THEN lower[i] ELSE "-"]
    IN TrimHyphens(CollapseHyphens(hyphened))

\* line 613
fullJobId(filename, now) == getJobId(filename) \o <<"_">> \o DigitsOf(now)

IdleJob == [pc |-> "idle", id |-> <<>>, wrote |-> {}, outcome |-> "none"]

NoJobs ==
    /\ jobs = [j \in Invocations |-> IdleJob]
    /\ tempTree = [dirs |-> {}, files |-> {}]

\* the state shared by every specification before its first step
Blank ==
    /\ parsed = <<>>
    /\ scenesWithPrompts = <<>>
    /\ finalScenes = <<>>
    /\ s5 = NoS5
    /\ tempDir = [exists |-> FALSE, files |-> {}]
    /\ transcriptBucket = <<>>
    /\ transcriptWrites = <<>>
    /\ chunkedBucket = <<>>
    /\ chunkedWrites = <<>>
    /\ imageBucket = {}
    /\ videoBucket = {}
    /\ clock = 0
    /\ log = <<>>
    /\ result = NoResult

\* no text is being parsed
NotParsing ==
    /\ rawText = <<>>
    /\ underlying = <<>>
    /\ json = NoJson

(***************************************************************************)
(* Segmentation on its own: any timeline of at most MaxWords words         *)
(***************************************************************************)
\* a timeline as the recogniser reports it: each word ends no earlier than it
\* starts and starts no earlier than the word before it ends; f gives each
\* word's text, its gap to the word before it and its duration
RECURSIVE Timeline(_, _)
Timeline(f, from) ==
    IF f = <<>> THEN <<>>
    ELSE LET start == from + Head(f)[2]
             end == start + Head(f)[3]
         IN <<W(Head(f)[1], start, end)>> \o Timeline(Tail(f), end)

InitSeg ==
    /\ NoJobs
    /\ pc = "step2"
    /\ \E k \in 0..MaxWords :
         \E f \in [1..k -> WordTexts \X WordGaps \X WordDurations] :
            words = Timeline(f, 0)
    /\ file = TRUE
    /\ ffmpegBin = <<"/bin/ffmpeg">>
    /\ scenes = <<>>
    /\ audioBucket = TRUE
    /\ stagesDone = {1}
    /\ Blank
    /\ NotParsing

NextSeg == Step2

SpecSeg == InitSeg /\ [][NextSeg]_vars

(***************************************************************************)
(* Reconciliation on its own: the scenes of a recognised timeline and any  *)
(* response of at most MaxRecords records                                  *)
(***************************************************************************)
MaxRecords == 3

T(s) == Str(s)

RecordChoices ==
    { Rec(Null, Null, T(<<"p">>)),
      Rec(Num(1), Null, T(<<"q">>)),
      Rec(Str(<<"2">>), Null, T(<<"r", ".">>)),
      Rec(Str(<<"s", "c", "e", "n", "e", "_", "1">>), Null, T(<<"s", " ">> \o AR)),
      Rec(Str(<<"x">>), Null, T(<<"t", " ">> \o AR \o <<".">>)),
      Rec(Num(0), Null, T(<<"u">>)),
      Rec(Num(3), Null, T(<<" ", "v", " ">>)),
      Rec(Num(2), Null, T(<<" ">>)),
      Rec(Null, Null, Null),
      Rec(Str(<<"x">>), Num(2), T(<<"w">>)),
      Rec(Null, Str(<<"3">>), T(<<"y", " ">> \o AR \o <<".", ".">>)),
      Rec(Num(-1), Null, T(<<"n">>)),
      NullRec }

InitRec ==
    /\ NoJobs
    /\ pc = "step3"
    /\ \E raw \in SttResults :
          /\ KeepWords(raw) # <<>>
          /\ words = KeepWords(raw)
    /\ scenes = ChunkScript(words)
    /\ file = TRUE
    /\ ffmpegBin = <<"/bin/ffmpeg">>
    /\ audioBucket = TRUE
    /\ stagesDone = {1, 2}
    /\ Blank
    /\ NotParsing

Step3Any ==
    /\ pc = "step3"
    /\ \/ \E resp \in FailedResponses : Step3With(resp)
       \/ \E k \in 0..MaxRecords :
            \E records \in [1..k -> RecordChoices] : Step3With(Response("ok", records))

NextRec == Step3Any

SpecRec == InitRec /\ [][NextRec]_vars

(***************************************************************************)
(* parseModelJSON on its own: a JSON document of at most MaxJsonItems      *)
(* values as the text model may write it, in a Markdown fence or not, with *)
(* a trailing comma or not, with typographic or straight quotation marks   *)
(***************************************************************************)
MaxJsonItems == 2

\* a string as the text writes it
Quoted(chars, style) ==
    IF style = "typographic" THEN <<"U+201C">> \o chars \o <<"U+201D">>
    ELSE <<"\"">> \o chars \o <<"\"">>

\* the values of a document: 1, "b", "x,}", "it's" with U+2019, [1]
JsonItems == { "one", "word", "comma brace", "apostrophe", "array" }

ItemText(item, style) ==
    CASE item = "one" -> <<"1">>
      [] item = "word" -> Quoted(<<"b">>, style)
      [] item = "comma brace" -> Quoted(<<"x", ",", "}">>, style)
      [] item = "apostrophe" -> Quoted(<<"i", "t", "U+2019", "s">>, style)
      [] OTHER -> <<"[", "1", "]">>

\* the items from the i-th on, separated by commas, each after its key in an
\* object
RECURSIVE ItemsText(_, _, _, _)
ItemsText(items, i, isObject, style) ==
    IF i > Len(items) THEN <<>>
    ELSE (IF i > 1 THEN <<",">> ELSE <<>>)
         \o (IF isObject THEN Quoted(<<"k", Digit[i + 1]>>, style) \o <<":">> ELSE <<>>)
         \o ItemText(items[i], style)
         \o ItemsText(items, i + 1, isObject, style)

\* an object, an array, or an array the text does not close
DocText(kind, items, comma, style) ==
    LET tail == IF items = <<>> \/ comma = "none" THEN <<>>
                ELSE IF comma = "close" THEN <<",">>
                ELSE <<",", " ", "\n">>
    IN (IF kind = "object" THEN <<"{">> ELSE <<"[">>)
       \o ItemsText(items, 1, kind = "object", style)
       \o tail
       \o (CASE kind = "object" -> <<"}">> [] kind = "array" -> <<"]">> [] OTHER -> <<>>)

Fenced(body, fence) ==
    CASE fence = "plain" -> <<"FENCE", "\n">> \o body \o <<"\n", "FENCE">>
      [] fence = "json" -> <<"FENCE", "json", "\n">> \o body \o <<"\n", "FENCE", "\n">>
      [] OTHER -> body

InitParse ==
    /\ NoJobs
    /\ pc = "parse"
    /\ \E kind \in {"object", "array", "unclosed"} :
       \E k \in 0..MaxJsonItems :
       \E items \in [1..k -> JsonItems] :
       \E comma \in {"none", "close", "spaced"} :
       \E style \in {"straight", "typographic"} :
       \E fence \in {"none", "plain", "json"} :
          /\ rawText = Fenced(DocText(kind, items, comma, style), fence)
          /\ underlying = IF kind = "unclosed" THEN <<>>
                          ELSE DocText(kind, items, "none", "straight")
    /\ json = NoJson
    /\ file = TRUE
    /\ ffmpegBin = <<"/bin/ffmpeg">>
    /\ words = <<>>
    /\ scenes = <<>>
    /\ audioBucket = TRUE
    /\ stagesDone = {1, 2}
    /\ Blank

\* line 365: parsed = parseModelJSON(rawText)
ParseModelJSON ==
    /\ pc = "parse"
    /\ json' = parseModelJSON(rawText)
    /\ pc' = "parsed"
    /\ UNCHANGED <<jobs, tempTree, rawText, underlying, file, ffmpegBin, words, scenes, parsed,
                   scenesWithPrompts, finalScenes, s5, tempDir, audioBucket,
                   transcriptBucket, transcriptWrites, chunkedBucket, chunkedWrites, imageBucket, videoBucket, clock,
                   log, stagesDone, result>>

NextParse == ParseModelJSON

SpecParse == InitParse /\ [][NextParse]_vars

(***************************************************************************)
(* The image stage on its own: any list of at most MaxImageScenes scenes   *)
(* as its argument may hold them                                           *)
(***************************************************************************)
MaxImageScenes == 3

\* a scene's prompt is null, the placeholder of reconciliation, a prompt of the
\* model, or a prompt of the model that begins with the words "Failed to
\* generate"
PromptKinds == { "absent", "placeholder", "model", "model failed to" }

RECURSIVE PromptedScenes(_, _, _)
PromptedScenes(f, n, from) ==
    IF f = <<>> THEN <<>>
    ELSE LET kind == Head(f)
             end == from + 7 * Sec
             scene == [scene |-> n, start_time_secs |-> from, end_time_secs |-> end,
                       script |-> <<"a">>,
                       prompt |->
                           CASE kind = "absent" -> Null
                             [] kind = "placeholder" -> Str(Placeholder(n))
                             [] kind = "model" -> Str(PromptFinal(<<"p">>))
                             [] OTHER -> Str(PromptFinal(<<"Failed to generate", " ", "x">>)),
                       image_url |-> Null]
         IN <<scene>> \o PromptedScenes(Tail(f), n + 1, end)

InitImages ==
    /\ NoJobs
    /\ pc = "step4"
    /\ \E k \in 1..MaxImageScenes :
         \E f \in [1..k -> PromptKinds] :
            scenesWithPrompts = PromptedScenes(f, 1, 0)
    /\ ffmpegBin = <<"/bin/ffmpeg">>
    /\ file = TRUE
    /\ words = <<>>
    /\ scenes = <<>>
    /\ parsed = <<>>
    /\ finalScenes = <<>>
    /\ s5 = NoS5
    /\ tempDir = [exists |-> FALSE, files |-> {}]
    /\ audioBucket = TRUE
    /\ transcriptBucket = <<>>
    /\ transcriptWrites = <<>>
    /\ chunkedBucket = <<>>
    /\ chunkedWrites = <<>>
    /\ imageBucket = {}
    /\ videoBucket = {}
    /\ clock = 0
    /\ log = <<>>
    /\ stagesDone = {1, 2, 3}
    /\ result = NoResult
    /\ NotParsing

NextImages ==
    \/ Step4Scene
    \/ Step4Save

SpecImages == InitImages /\ [][NextImages]_vars

(***************************************************************************)
(* Video assembly on its own: any list of at most MaxVideoScenes scenes as *)
(* the image stage leaves them                                             *)
(***************************************************************************)
MaxVideoScenes == 3

\* a scene lasts 0 s, 7.5 s or 1.0004 s
VideoDurations == { 0, 7 * Sec + Sec \div 2, Sec + 4 }

ImageKinds == { "skipped", "stored", "failed" }

RECURSIVE ImagedScenes(_, _, _)
ImagedScenes(f, n, from) ==
    IF f = <<>> THEN <<>>
    ELSE LET kind == Head(f)[1]
             end == from + Head(f)[2]
             filename == SceneFile(n, (n - 1) * SLEEP_BETWEEN_IMAGES_SEC * 1000)
             scene == [scene |-> n, start_time_secs |-> from, end_time_secs |-> end,
                       script |-> <<"a">>,
                       prompt |-> IF kind = "skipped" THEN Str(Placeholder(n))
                                  ELSE Str(<<"p", ".", " ">> \o AR \o <<".">>),
                       image_url |->
                           CASE kind = "skipped" -> Null
                             [] kind = "stored" -> Str(PublicUrl("IMAGE_BUCKET", filename))
                             [] OTHER -> Str(ErrorMarker(<<"Imagen returned no image data.">>))]
         IN <<scene>> \o ImagedScenes(Tail(f), n + 1, end)

StoredFiles(list) ==
    { Basename(UrlPathname(list[i].image_url.s)) :
        i \in { j \in 1..Len(list) : list[j].image_url.t = "str"
                                      /\ Head(list[j].image_url.s) = "https:" } }

InitVideo ==
    /\ NoJobs
    /\ pc = "s5_assert"
    /\ \E k \in 1..MaxVideoScenes :
         \E f \in [1..k -> ImageKinds \X VideoDurations] :
            finalScenes = ImagedScenes(f, 1, 0)
    /\ imageBucket = StoredFiles(finalScenes)
    /\ ffmpegBin \in {<<>>, <<"/bin/ffmpeg">>}
    /\ file = TRUE
    /\ words = <<>>
    /\ scenes = <<>>
    /\ parsed = <<>>
    /\ scenesWithPrompts = <<>>
    /\ s5 = NoS5
    /\ tempDir = [exists |-> FALSE, files |-> {}]
    /\ audioBucket = TRUE
    /\ transcriptBucket = <<>>
    /\ transcriptWrites = <<>>
    /\ chunkedBucket = <<>>
    /\ chunkedWrites = <<>>
    /\ videoBucket = {}
    /\ clock = 0
    /\ log = <<>>
    /\ stagesDone = {1, 2, 3, 4}
    /\ result = NoResult
    /\ NotParsing

NextVideo == Step5

SpecVideo == InitVideo /\ [][NextVideo]_vars

(***************************************************************************)
(* The job: generateStoryboard                                             *)
(***************************************************************************)
MaxJobRecords == 3

JobRecords ==
    { Rec(Null, Null, T(<<"p">>)),
      Rec(Str(<<"2">>), Null, T(<<"q", " ">> \o AR)),
      NullRec }

Step3 ==
    /\ pc = "step3"
    /\ \/ \E resp \in FailedResponses : Step3With(resp)
       \/ \E k \in 0..MaxJobRecords :
            \E records \in [1..k -> JobRecords] : Step3With(Response("ok", records))

Init ==
    /\ NoJobs
    /\ pc = "start"
    /\ file \in BOOLEAN
    /\ ffmpegBin \in {<<>>, <<"/bin/ffmpeg">>}
    /\ words = <<>>
    /\ scenes = <<>>
    /\ audioBucket = FALSE
    /\ stagesDone = {}
    /\ Blank
    /\ NotParsing

Next ==
    \/ Step1
    \/ Step2
    \/ Step3
    \/ Step4Scene
    \/ Step4Save
    \/ Step5

Spec == Init /\ [][Next]_vars

(***************************************************************************)
(* Segmentation, reconciliation and the image stage in a row, on the words *)
(* a recogniser's answer leaves after the filter of step 1, the empty word *)
(* sequence included                                                       *)
(***************************************************************************)
InitStages ==
    /\ NoJobs
    /\ pc = "step2"
    /\ \E raw \in SttResults : words = KeepWords(raw)
    /\ scenes = <<>>
    /\ file = TRUE
    /\ ffmpegBin = <<"/bin/ffmpeg">>
    /\ audioBucket = TRUE
    /\ stagesDone = {1}
    /\ Blank
    /\ NotParsing

NextStages ==
    \/ Step2
    \/ Step3
    \/ Step4Scene
    \/ Step4Save

SpecStages == InitStages /\ [][NextStages]_vars

(***************************************************************************)
(* The steps of the concurrent jobs                                        *)
(***************************************************************************)
JobFrame ==
    UNCHANGED <<pc, file, ffmpegBin, words, scenes, parsed, scenesWithPrompts, finalScenes,
                s5, tempDir, audioBucket, transcriptBucket, transcriptWrites, chunkedBucket,
                chunkedWrites, imageBucket, videoBucket, log, stagesDone, result, rawText,
                underlying, json>>

\* a millisecond passes
Tick ==
    /\ clock < MaxNow
    /\ clock' = clock + 1
    /\ UNCHANGED <<jobs, tempTree>>
    /\ JobFrame

\* fs.writeFile / file.download({destination}) of name into dir by job j: the
\* file replaces one of the same name; it fails when the directory is gone
WriteFile(tree, dir, name, j) ==
    [tree EXCEPT !.files = {f \in @ : ~(f.dir = dir /\ f.name = name)}
                             \cup {[dir |-> dir, name |-> name, by |-> j]}]

HasFile(tree, dir, name) == \E f \in tree.files : f.dir = dir /\ f.name = name

\* an exception inside the try block of runStep5_CreateVideo: finally runs next
JobFails(j) == jobs' = [jobs EXCEPT ![j].pc = "cleanup", ![j].outcome = "error"]

\* lines 610-614
JobStart(j) ==
    /\ jobs[j].pc = "idle"
    /\ \E filename \in FileNames :
          jobs' = [jobs EXCEPT ![j].pc = "stages", ![j].id = fullJobId(filename, clock)]
    /\ UNCHANGED <<clock, tempTree>>
    /\ JobFrame

\* lines 615-619 and 488: the stages before the working directory exists
\* either throw, which ends the job, or return
JobStages(j) ==
    /\ jobs[j].pc = "stages"
    /\ \/ jobs' = [jobs EXCEPT ![j].pc = "done", ![j].outcome = "error"]
       \/ jobs' = [jobs EXCEPT ![j].pc = "mkdir"]
    /\ UNCHANGED <<clock, tempTree>>
    /\ JobFrame

\* lines 491-492
JobMkdir(j) ==
    /\ jobs[j].pc = "mkdir"
    /\ tempTree' = [tempTree EXCEPT !.dirs = @ \cup {jobs[j].id}]
    /\ jobs' = [jobs EXCEPT ![j].pc = "download"]
    /\ UNCHANGED clock
    /\ JobFrame

\* lines 502-526: the audio and the images are downloaded into TEMP_DIR
JobDownload(j) ==
    /\ jobs[j].pc = "download"
    /\ IF jobs[j].id \in tempTree.dirs
       THEN /\ tempTree' = WriteFile(tempTree, jobs[j].id, <<"audio.wav">>, j)
            /\ jobs' = [jobs EXCEPT ![j].pc = "manifest",
                                    ![j].wrote = @ \cup {<<"audio.wav">>}]
       ELSE JobFails(j) /\ UNCHANGED tempTree
    /\ UNCHANGED clock
    /\ JobFrame

\* lines 529-533
JobManifest(j) ==
    /\ jobs[j].pc = "manifest"
    /\ IF jobs[j].id \in tempTree.dirs
       THEN /\ tempTree' = WriteFile(tempTree, jobs[j].id, <<"inputs.txt">>, j)
            /\ jobs' = [jobs EXCEPT ![j].pc = "ffmpeg",
                                    ![j].wrote = @ \cup {<<"inputs.txt">>}]
       ELSE JobFails(j) /\ UNCHANGED tempTree
    /\ UNCHANGED clock
    /\ JobFrame

\* lines 537-551: ffmpeg reads inputs.txt and audio.wav and writes <jobId>.mp4
JobFfmpeg(j) ==
    /\ jobs[j].pc = "ffmpeg"
    /\ IF /\ HasFile(tempTree, jobs[j].id, <<"inputs.txt">>)
          /\ HasFile(tempTree, jobs[j].id, <<"audio.wav">>)
       THEN \/ /\ tempTree' = WriteFile(tempTree, jobs[j].id, jobs[j].id \o <<".mp4">>, j)
               /\ jobs' = [jobs EXCEPT ![j].pc = "upload",
                                       ![j].wrote = @ \cup {jobs[j].id \o <<".mp4">>}]
            \/ JobFails(j) /\ UNCHANGED tempTree
       ELSE JobFails(j) /\ UNCHANGED tempTree
    /\ UNCHANGED clock
    /\ JobFrame

\* lines 555-563
JobUpload(j) ==
    /\ jobs[j].pc = "upload"
    /\ IF HasFile(tempTree, jobs[j].id, jobs[j].id \o <<".mp4">>)
       THEN \/ jobs' = [jobs EXCEPT ![j].pc = "cleanup", ![j].outcome = "ok"]
            \/ JobFails(j)
       ELSE JobFails(j)
    /\ UNCHANGED <<clock, tempTree>>
    /\ JobFrame

\* lines 567-570: fs.rm(TEMP_DIR, { recursive: true, force: true })
JobCleanup(j) ==
    /\ jobs[j].pc = "cleanup"
    /\ tempTree' = [dirs |-> tempTree.dirs \ {jobs[j].id},
                    files |-> {f \in tempTree.files : f.dir # jobs[j].id}]
    /\ jobs' = [jobs EXCEPT ![j].pc = "done"]
    /\ UNCHANGED clock
    /\ JobFrame

InitJobs ==
    /\ pc = "start"
    /\ file = TRUE
    /\ ffmpegBin = <<"/bin/ffmpeg">>
    /\ words = <<>>
    /\ scenes = <<>>
    /\ audioBucket = FALSE
    /\ stagesDone = {}
    /\ Blank
    /\ NotParsing
    /\ NoJobs

NextJobs ==
    \/ Tick
    \/ \E j \in Invocations : JobStart(j)
    \/ \E j \in Invocations : JobStages(j)
    \/ \E j \in Invocations : JobMkdir(j)
    \/ \E j \in Invocations : JobDownload(j)
    \/ \E j \in Invocations : JobManifest(j)
    \/ \E j \in Invocations : JobFfmpeg(j)
    \/ \E j \in Invocations : JobUpload(j)
    \/ \E j \in Invocations : JobCleanup(j)

SpecJobs == InitJobs /\ [][NextJobs]_vars

(***************************************************************************)
(* Properties                                                              *)
(***************************************************************************)
RECURSIVE FlatTokens(_)
FlatTokens(texts) ==
    IF texts = <<>> THEN <<>> ELSE TokensOf(Head(texts)) \o FlatTokens(Tail(texts))

ScriptsOf(list) == [i \in 1..Len(list) |-> list[i].script]

WordsOf(ws) == [i \in 1..Len(ws) |-> ws[i].word]

\* C1: segmenting a non-empty word sequence gives at least one scene, and the
\* white-space separated tokens of the scenes' scripts, in scene order, are the
\* tokens of the input words in input order
C1_TokensPreserved ==
    (2 \in stagesDone /\ words # <<>>) =>
        /\ Len(scenes) >= 1
        /\ FlatTokens(ScriptsOf(scenes)) = FlatTokens(WordsOf(words))

C1_Witness ==
    /\ 2 \in stagesDone
    /\ Len(words) = 3
    /\ Len(scenes) = 2
    /\ words[2].word = <<" ", "c">>

IsErrorMarker(v) == v.t = "str" /\ StartsWith(v.s, <<"ERROR: ">>)

IsImageUrl(v) == v.t = "str" /\ StartsWith(v.s, <<"https:">>)

Logged(op, n) == \E j \in 1..Len(log) : log[j] = Event(op, n)

\* C2: in a job with several scenes of which one failed in the image stage and
\* the others have stored images, video assembly skips the failed scene: no
\* image is downloaded for it and the job does not fail for want of that image
C2_FailedSceneSkipped ==
    (/\ pc = "done"
     /\ 4 \in stagesDone
     /\ Len(finalScenes) >= 2
     /\ \E i \in 1..Len(finalScenes) :
           /\ IsErrorMarker(finalScenes[i].image_url)
           /\ \A j \in 1..Len(finalScenes) : j # i => IsImageUrl(finalScenes[j].image_url))
    => /\ \A i \in 1..Len(finalScenes) :
             IsErrorMarker(finalScenes[i].image_url) => ~Logged("download image", i)
       /\ result.kind = "error" => ~StartsWith(result.error, <<"No such object: ">>)

\* C3: generateStoryboard lets no exception escape; a finished job returned
\* either {scenes, video} or {error: message}, and {scenes, video} only after
\* all five stages completed, with the scenes of the image stage
C3_ResultShape ==
    /\ result.kind \in {"none", "ok", "error"}
    /\ pc = "done" <=> result.kind # "none"
    /\ result.kind = "error" => result.error # <<>>
    /\ result.kind = "ok" =>
          /\ stagesDone = 1..5
          /\ result.scenes = finalScenes
          /\ Len(finalScenes) = Len(scenesWithPrompts)
          /\ result.video # <<>>

C3_Witness ==
    /\ pc = "done"
    /\ result.kind = "error"
    /\ stagesDone = 1..4
    /\ Logged("ffmpeg", 0)

RECURSIVE ValidImages(_)
ValidImages(list) ==
    IF list = <<>> THEN <<>>
    ELSE IF IsImageUrl(Head(list).image_url) THEN <<Head(list)>> \o ValidImages(Tail(list))
    ELSE ValidImages(Tail(list))

ManifestWritten == <<"inputs.txt">> \in tempDir.files

Abs(x) == IF x < 0 THEN -x ELSE x

\* the manifest is N (file, duration) pairs, one per scene with a valid image
\* in list order, then the last file once more; the durations are judged
\* exactly or to the millisecond
ManifestShape(exact) ==
    LET valid == ValidImages(finalScenes)
        N == Len(valid)
    IN (ManifestWritten /\ N >= 1) =>
          /\ Len(s5.lines) = 2 * N + 1
          /\ \A j \in 1..N :
                LET line == s5.lines[2 * j]
                    wanted == Max(MinDuration,
                                  valid[j].end_time_secs - valid[j].start_time_secs)
                IN /\ s5.lines[2 * j - 1] =
                         FileLine(Basename(UrlPathname(valid[j].image_url.s)))
                   /\ line.kind = "duration"
                   /\ IF exact THEN line.value = wanted
                      ELSE line.value % 10 = 0 /\ Abs(line.value - wanted) <= 5
                   /\ line.value >= MinDuration
                   /\ j > 1 => valid[j - 1].scene < valid[j].scene
          /\ s5.lines[2 * N + 1] = s5.lines[2 * N - 1]

\* C5 as stated: every duration of the manifest equals max(0.05, end - start)
C5_ManifestExact == ManifestShape(TRUE)

\* C5 as amended: the manifest is N (file, duration) pairs in scene order and
\* the last file once more; every duration is max(0.05, end - start) rounded to
\* the millisecond, and at least 0.05
C5_ManifestRounded == ManifestShape(FALSE)

C5_Witness ==
    /\ ManifestWritten
    /\ Len(finalScenes) = 3
    /\ Len(ValidImages(finalScenes)) = 2
    /\ ~Truthy(finalScenes[2].image_url)
    /\ finalScenes[1].end_time_secs = finalScenes[1].start_time_secs
    /\ s5.lines[2].value = MinDuration

Reconciled == 3 \in stagesDone

Sid(r) == extractSceneId(r)

\* record i carries the identifier of scene k and a prompt that is not empty
Names(i, k) == Sid(parsed[i]) = Num(k) /\ PRaw(parsed[i]) # <<>>

NormalizedPrompt(i) == Str(PromptFinal(PRaw(parsed[i])))

SomeIdentifier == \E i \in 1..Len(parsed) : Sid(parsed[i]) # Null /\ Sid(parsed[i]).n > 0

C7_PositionalFallback ==
    (Reconciled /\ \A i \in 1..Len(parsed) : Sid(parsed[i]) = Null) =>
        \A i \in 1..Len(parsed) :
            (PRaw(parsed[i]) # <<>> /\ i <= Len(scenes)) =>
                /\ scenesWithPrompts[i].scene = i
                /\ scenesWithPrompts[i].prompt = NormalizedPrompt(i)

C7_Witness ==
    /\ Reconciled
    /\ Len(scenes) = 3
    /\ Len(parsed) = 3
    /\ \A i \in 1..3 : Sid(parsed[i]) = Null
    /\ parsed[1].scene_id = Str(<<"x">>)
    /\ PRaw(parsed[2]) = <<>>
    /\ scenesWithPrompts[1].prompt = NormalizedPrompt(1)
    /\ scenesWithPrompts[2].prompt = Str(Placeholder(2))
    /\ scenesWithPrompts[3].prompt = NormalizedPrompt(3)

\* the number of occurrences of "16:9" in s
RECURSIVE CountAR(_)
CountAR(s) ==
    IF Len(s) < Len(AR) THEN 0
    ELSE (IF StartsWith(s, AR) THEN 1 ELSE 0) + CountAR(Tail(s))

FromModel(j) == scenesWithPrompts[j].prompt # Str(Placeholder(scenesWithPrompts[j].scene))

\* the stored prompt p is a model prompt with the marker added once if it did
\* not end with it, and not at all if it did
MarkerOnce(p) ==
    \E i \in 1..Len(parsed) :
        LET raw == PRaw(parsed[i])
        IN /\ raw # <<>>
           /\ StartsWith(p, raw)
           /\ CountAR(p) = CountAR(raw) + (IF EndsWithAR(raw) THEN 0 ELSE 1)

\* C8 as stated: every prompt stored from a model record ends with "16:9."
C8_EndsWithMarkerAndStop ==
    Reconciled =>
        \A j \in 1..Len(scenesWithPrompts) :
            FromModel(j) =>
                /\ EndsWith(scenesWithPrompts[j].prompt.s, AR \o <<".">>)
                /\ MarkerOnce(scenesWithPrompts[j].prompt.s)

\* C8 as amended: every prompt stored from a model record ends with "16:9" or
\* "16:9.", the marker being added once when the model's prompt did not end
\* with it and not at all when it did; the full stop is missing only when the
\* model's prompt ended with "16:9" without one
C8_EndsWithMarker ==
    Reconciled =>
        \A j \in 1..Len(scenesWithPrompts) :
            FromModel(j) =>
                LET p == scenesWithPrompts[j].prompt.s
                IN /\ EndsWith(p, AR) \/ EndsWith(p, AR \o <<".">>)
                   /\ MarkerOnce(p)
                   /\ EndsWith(p, AR) =>
                         \E i \in 1..Len(parsed) : PRaw(parsed[i]) = p

C8_Witness ==
    /\ Reconciled
    /\ \E j \in 1..Len(scenesWithPrompts) :
          scenesWithPrompts[j].prompt = Str(<<"r", ".", " ">> \o AR \o <<".">>)
    /\ \E j \in 1..Len(scenesWithPrompts) :
          scenesWithPrompts[j].prompt = Str(<<"s", " ">> \o AR)

\* an image of scene n is stored in the image bucket
Stored(n) ==
    \E name \in imageBucket : StartsWith(name, <<"scene_">> \o PadStart3(DigitsOf(n)) \o <<"_">>)

\* C9: a failure while generating or storing one scene's image does not abort
\* the image stage: that scene's image_url is a string beginning "ERROR: ",
\* the other scenes are as they would be without it, every later scene is
\* processed and the stage returns normally
C9_ImageFailureIsLocal ==
    /\ Len(finalScenes) <= Len(scenesWithPrompts)
    /\ \A i \in 1..Len(finalScenes) :
          /\ [finalScenes[i] EXCEPT !.image_url = Null] = scenesWithPrompts[i]
          /\ (Logged("generateImages", i) /\ ~Stored(i))
                => IsErrorMarker(finalScenes[i].image_url)
          /\ (Logged("generateImages", i) /\ Stored(i))
                => /\ IsImageUrl(finalScenes[i].image_url)
                   /\ Basename(UrlPathname(finalScenes[i].image_url.s)) \in imageBucket
          /\ ~Logged("generateImages", i) => finalScenes[i] = scenesWithPrompts[i]
    /\ (3 \in stagesDone /\ pc # "step4")
          => (4 \in stagesDone /\ Len(finalScenes) = Len(scenesWithPrompts))

C9_Witness ==
    /\ 4 \in stagesDone
    /\ Len(finalScenes) = 3
    /\ IsImageUrl(finalScenes[1].image_url)
    /\ finalScenes[2].image_url = Str(<<"ERROR: ", "Imagen returned no image data.">>)
    /\ IsImageUrl(finalScenes[3].image_url)
    /\ Logged("sleep", 3)

LaterStageOps ==
    { "generateImages", "save image", "sleep", "assertFfmpeg", "mkdir", "download audio",
      "download image", "write manifest", "ffmpeg", "upload video", "rm" }

\* C10: a job that ended on a fatal error of stages 1-3 returned {error}, and
\* no later stage was started: no image was requested and the transcoder was
\* neither looked for nor run
C10_FatalErrorAborts ==
    /\ (pc = "done" /\ 3 \notin stagesDone) =>
          /\ result.kind = "error"
          /\ \A j \in 1..Len(log) : log[j].op \notin LaterStageOps
          /\ finalScenes = <<>>
          /\ ~tempDir.exists
    /\ 3 \notin stagesDone => pc \in {"start", "step2", "step3", "done"}

C10_Witness ==
    /\ pc = "done"
    /\ stagesDone = {1, 2}
    /\ Logged("generateContent", 0)
    /\ result.kind = "error"
    /\ result.error = <<"Gemini safety blocked the request: ", "SAFETY">>

\* the stage that makes the call op
StageOfOp(op) ==
    CASE op \in {"upload audio", "recognize"} -> 1
      [] op = "generateContent" -> 3
      [] op \in {"generateImages", "save image", "sleep"} -> 4
      [] OTHER -> 5

\* C11: the stages of a job complete in the order 1..5 and their calls are made
\* in that order; the text model is called only after segmentation returned, an
\* image is requested only when every scene has its prompt, and a call of video
\* assembly is made only when the image stage has processed every scene
C11_StagesInOrder ==
    /\ \E k \in 0..5 : stagesDone = 1..k
    /\ \A i, j \in 1..Len(log) :
          i < j => StageOfOp(log[i].op) <= StageOfOp(log[j].op)
    /\ \A j \in 1..Len(log) :
          /\ StageOfOp(log[j].op) >= 3 =>
                /\ {1, 2} \subseteq stagesDone
                /\ scenes = ChunkScript(words)
          /\ StageOfOp(log[j].op) >= 4 =>
                /\ 3 \in stagesDone
                /\ Len(scenesWithPrompts) = Len(scenes)
                /\ \A i \in 1..Len(scenes) : Truthy(scenesWithPrompts[i].prompt)
          /\ StageOfOp(log[j].op) = 5 =>
                /\ 4 \in stagesDone
                /\ Len(finalScenes) = Len(scenesWithPrompts)

C11_Witness ==
    /\ pc = "done"
    /\ result.kind = "ok"
    /\ Len(finalScenes) >= 2
    /\ Logged("generateImages", 1)
    /\ Logged("generateImages", 2)
    /\ Logged("download image", 2)
    /\ Logged("ffmpeg", 0)

\* the job ended on the error assertFfmpeg throws
TranscoderUnavailable ==
    /\ result.kind = "error"
    /\ \/ result.error = <<"FFmpeg path not resolved">>
       \/ StartsWith(result.error, <<"FFmpeg not found at: ">>)

NoTerminalWord == \A i \in 1..Len(words) : ~SENTENCE_END_RE(words[i].word)

\* C13: a non-empty word sequence without sentence-terminal punctuation is
\* segmented into exactly one scene, numbered 1, from the first word's start to
\* the last word's end, whose script holds every word, however long it lasts
C13_OneSceneWithoutPunctuation ==
    (2 \in stagesDone /\ words # <<>> /\ NoTerminalWord) =>
        /\ Len(scenes) = 1
        /\ scenes[1].scene = 1
        /\ scenes[1].start_time_secs = words[1].startTime
        /\ scenes[1].end_time_secs = words[Len(words)].endTime
        /\ TokensOf(scenes[1].script) = FlatTokens(WordsOf(words))

C13_Witness ==
    /\ 2 \in stagesDone
    /\ Len(words) = 3
    /\ NoTerminalWord
    /\ words[2].endTime - words[1].startTime >= TARGET_DURATION_SEC
    /\ words[3].endTime - words[1].startTime >= 3 * TARGET_DURATION_SEC
    /\ Len(scenes) = 1
    /\ scenes[1].end_time_secs = words[3].endTime

C15_ParseModelJSON ==
    pc = "parsed" =>
        /\ JSONParse(rawText).ok => json = JSONParse(rawText)
        /\ JSONParse(underlying).ok => json = JSONParse(underlying)
        /\ ~json.ok => ~JSONParse(removeTrailingCommas(extractPossibleJSON(rawText))).ok

\* word i closes a scene, in the words of the claim: it is the last word, or it
\* holds sentence-terminal punctuation and ends 7.0 s or more after the start
\* of the buffer, which is the start of the first word after the last close
RECURSIVE BufferStartAt(_), ClosesAt(_)
BufferStartAt(i) ==
    IF i = 1 \/ ClosesAt(i - 1) THEN words[i].startTime ELSE BufferStartAt(i - 1)

ClosesAt(i) ==
    \/ SENTENCE_END_RE(words[i].word) /\ words[i].endTime - BufferStartAt(i) >= 7 * Sec
    \/ i = Len(words)

\* C16: the scenes are closed at exactly the words that are last or that are
\* terminal with 7.0 s or more elapsed in the buffer, each scene running from
\* its buffer's start to its closing word's end; the words a 0-1, b. 1-8.5
\* give one scene from 0 to 8.5
C16_ClosesIffTerminalAndLongEnough ==
    (2 \in stagesDone /\ words # <<>>) =>
        LET closing == { i \in 1..Len(words) : ClosesAt(i) }
        IN /\ Len(scenes) = Cardinality(closing)
           /\ \A i \in 1..Len(words) :
                 ClosesAt(i) <=>
                    \E j \in 1..Len(scenes) :
                       /\ scenes[j].end_time_secs = words[i].endTime
                       /\ scenes[j].start_time_secs = BufferStartAt(i)
           /\ words = <<W(<<"a">>, 0, Sec), W(<<"b", ".">>, Sec, 8 * Sec + Sec \div 2)>> =>
                 /\ Len(scenes) = 1
                 /\ scenes[1].start_time_secs = 0
                 /\ scenes[1].end_time_secs = 8 * Sec + Sec \div 2

\* a terminal word under 7.0 s that closes nothing, then a terminal word past
\* 7.0 s that closes the scene, then the last word
C16_Witness ==
    /\ 2 \in stagesDone
    /\ Len(words) = 3
    /\ SENTENCE_END_RE(words[1].word)
    /\ words[1].endTime - words[1].startTime < 7 * Sec
    /\ SENTENCE_END_RE(words[2].word)
    /\ words[2].endTime - words[1].startTime >= 7 * Sec
    /\ Len(scenes) = 2
    /\ scenes[1].end_time_secs = words[2].endTime
    /\ scenes[2].start_time_secs = words[3].startTime

\* the keys the first pass of reconciliation sets from the records' identifiers
IdentifierKeys == DOMAIN ByIdentifier(parsed, 1, EmptyMap)

\* C17: every identifier that reconciliation takes from a record and uses as
\* a scene-number key is a positive integer; an absent, zero, negative or
\* digitless identifier gives no key
C17_KeysArePositiveIntegers ==
    Reconciled =>
        /\ \A key \in IdentifierKeys : key.t = "num" /\ key.n >= 1
        /\ \A i \in 1..Len(parsed) :
              (parsed[i].scene_id.t = "num" /\ parsed[i].scene_id.n <= 0)
                  => parsed[i].scene_id \notin IdentifierKeys

\* some record carries an identifier reconciliation uses and a prompt
SomeKey == \E i \in 1..Len(parsed) : Truthy(Sid(parsed[i])) /\ PRaw(parsed[i]) # <<>>

\* scene j has a model prompt only from a record that names it
OnlyByIdentifier(j) ==
    FromModel(j) =>
        \E i \in 1..Len(parsed) :
            /\ Names(i, scenesWithPrompts[j].scene)
            /\ scenesWithPrompts[j].prompt = NormalizedPrompt(i)

Calls(n) == Cardinality({ j \in 1..Len(log) : log[j] = Event("generateImages", n) })

\* C19: the image stage skips a scene, without a call and leaving it as it
\* was, exactly when its prompt is absent or is the placeholder of
\* reconciliation; every other scene gets one image-generation call
C19_SkipsIffNoModelPrompt ==
    \A i \in 1..Len(finalScenes) :
        LET scene == scenesWithPrompts[i]
            noPrompt == \/ ~Truthy(scene.prompt)
                        \/ scene.prompt = Str(Placeholder(scene.scene))
        IN /\ noPrompt <=> (Calls(scene.scene) = 0 /\ finalScenes[i] = scene)
           /\ ~noPrompt => Calls(scene.scene) = 1

\* the positions in the log of the calls op
At(op) == { j \in 1..Len(log) : log[j].op = op }

\* C20: every image-generation call, failed or not, is followed by one pacing
\* wait of 30 s for the same scene before the next call or the end of the
\* stage; the clock has advanced by 30 s for every call made
C20_PacingAfterEveryAttempt ==
    /\ \A j \in At("generateImages") :
          \E k \in At("sleep") :
             /\ k > j
             /\ log[k].n = log[j].n
             /\ \A h \in At("generateImages") \cup At("sleep") : (j < h /\ h <= k) => h = k
    /\ Cardinality(At("sleep")) = Cardinality(At("generateImages"))
    /\ clock = Cardinality(At("generateImages")) * 30 * 1000
    /\ \A i \in 1..Len(finalScenes) :
          IsErrorMarker(finalScenes[i].image_url) => Logged("sleep", finalScenes[i].scene)

C20_Witness ==
    /\ 4 \in stagesDone
    /\ Len(finalScenes) = 3
    /\ IsErrorMarker(finalScenes[1].image_url)
    /\ ~Logged("generateImages", 2)
    /\ IsImageUrl(finalScenes[3].image_url)
    /\ clock = 2 * 30 * 1000

\* C21: reconciliation returns the scenes it was given, in their order, with
\* nothing but the prompt changed; every prompt is a string that is not empty,
\* and a scene numbered k without an entry in the prompt mapping has the
\* prompt "Failed to generate prompt for scene k"
C21_EverySceneHasPrompt ==
    Reconciled =>
        /\ Len(scenesWithPrompts) = Len(scenes)
        /\ \A j \in 1..Len(scenes) :
              LET k == scenes[j].scene
                  after == scenesWithPrompts[j]
              IN /\ [after EXCEPT !.prompt = scenes[j].prompt] = scenes[j]
                 /\ after.prompt.t = "str"
                 /\ after.prompt.s # <<>>
                 /\ Num(k) \notin DOMAIN PromptMap(parsed) =>
                       after.prompt.s =
                          <<"Failed to generate", " prompt for scene ", Digit[k + 1]>>
                 /\ Num(k) \in DOMAIN PromptMap(parsed) =>
                       after.prompt.s = PromptMap(parsed)[Num(k)]

C21_Witness ==
    /\ Reconciled
    /\ Len(scenes) = 3
    /\ Len(parsed) = 2
    /\ DOMAIN PromptMap(parsed) = {Num(1), Num(3)}
    /\ scenesWithPrompts[2].prompt.s = <<"Failed to generate", " prompt for scene ", "2">>
    /\ scenesWithPrompts[1].prompt.s # scenesWithPrompts[3].prompt.s
    /\ scenesWithPrompts[3].script = scenes[3].script

\* 1 when stage k has returned, else 0
Done(k) == IF k \in stagesDone THEN 1 ELSE 0

\* the scene list has been written once for each of the stages 2, 3 and 4
\* that has returned (fromStage2 tells the writes of stage 2), every write
\* made before its stage returned and carrying the list the stage returned
WritesAfterStages(fromStage2) ==
    /\ Len(chunkedWrites) = fromStage2 + Done(3) + Done(4)
    /\ (2 \in stagesDone /\ fromStage2 = 1) => chunkedWrites[1].content = scenes
    /\ 3 \in stagesDone => chunkedWrites[fromStage2 + 1].content = scenesWithPrompts
    /\ 4 \in stagesDone => chunkedWrites[fromStage2 + 2].content = finalScenes
    /\ \A j \in 1..Len(chunkedBucket) :
          \E h \in 1..Len(chunkedWrites) :
             chunkedWrites[h].stored /\ chunkedWrites[h].content = chunkedBucket[j]

Running(j) == jobs[j].pc \notin {"idle", "done"}

\* TEMP_DIR holds every file job j has put there
OwnsItsFiles(j) ==
    \A name \in jobs[j].wrote :
       [dir |-> jobs[j].id, name |-> name, by |-> j] \in tempTree.files

\* C23: two running jobs never have the same job identifier, and until its own
\* cleanup a job finds in its working directory every file it put there,
\* neither deleted nor overwritten by the other job
C23_JobsShareNothing ==
    /\ \A i \in Invocations : \A j \in Invocations \ {i} :
          (Running(i) /\ Running(j)) => jobs[i].id # jobs[j].id
    /\ \A j \in Invocations :
          jobs[j].pc \in {"manifest", "ffmpeg", "upload"} => OwnsItsFiles(j)

\* C24: segmentation numbers its scenes 1, 2, ..., n in the order it emits
\* them; the first scene starts at the first word's start, every later scene
\* starts at the start of the word that follows the last word of the scene
\* before it, and the starts never decrease
C24_NumberedAndStartsFollow ==
    2 \in stagesDone =>
        /\ \A j \in 1..Len(scenes) : scenes[j].scene = j
        /\ words # <<>> =>
              /\ Len(scenes) >= 1
              /\ scenes[1].start_time_secs = words[1].startTime
        /\ \A j \in 2..Len(scenes) :
              /\ \E i \in 1..(Len(words) - 1) :
                    /\ words[i].endTime = scenes[j - 1].end_time_secs
                    /\ words[i + 1].startTime = scenes[j].start_time_secs
              /\ scenes[j - 1].start_time_secs <= scenes[j].start_time_secs

\* three scenes, the second starting after a pause that follows the first
C24_Witness ==
    /\ 2 \in stagesDone
    /\ Len(scenes) = 3
    /\ scenes[3].scene = 3
    /\ scenes[2].start_time_secs > scenes[1].end_time_secs

WithoutImage(scene) == [scene EXCEPT !.image_url = Null]

\* C25: the image stage takes the scenes in ascending order, one at a time: an
\* image-generation call is made for scene i + 1 only when the outcomes of the
\* scenes 1..i are in the list, an outcome once in the list is never changed,
\* and the list returned has the length and order of the argument and differs
\* from it in image_url only
C25_AscendingOneAtATime ==
    [][ /\ SubSeq(finalScenes', 1, Len(finalScenes)) = finalScenes
        /\ \A k \in (Len(log) + 1)..Len(log') :
              log'[k].op = "generateImages" =>
                 /\ log'[k].n = scenesWithPrompts[Len(finalScenes) + 1].scene
                 /\ log'[k].n = Len(finalScenes) + 1
                 /\ Len(finalScenes') = Len(finalScenes) + 1
        /\ Len(finalScenes') <= Len(scenesWithPrompts)
        /\ \A i \in 1..Len(finalScenes') :
              WithoutImage(finalScenes'[i]) = WithoutImage(scenesWithPrompts[i])
        /\ 4 \in stagesDone' => Len(finalScenes') = Len(scenesWithPrompts)
      ]_vars

\* three scenes with model prompts, each called for once, the calls in the
\* order 1, 2, 3, the second failing
C25_Witness ==
    /\ 4 \in stagesDone
    /\ Len(finalScenes) = 3
    /\ \E a \in 1..Len(log) : \E b \in 1..Len(log) : \E c \in 1..Len(log) :
          /\ a < b /\ b < c
          /\ log[a] = Event("generateImages", 1)
          /\ log[b] = Event("generateImages", 2)
          /\ log[c] = Event("generateImages", 3)
    /\ IsErrorMarker(finalScenes[2].image_url)
    /\ IsImageUrl(finalScenes[3].image_url)

Last(s) == s[Len(s)]

\* the contents of the writes that were stored, in order
RECURSIVE StoredOf(_)
StoredOf(writes) ==
    IF writes = <<>> THEN <<>>
    ELSE IF Head(writes).stored THEN <<Head(writes).content>> \o StoredOf(Tail(writes))
    ELSE StoredOf(Tail(writes))

\* C26: a write of the transcript or of the scene list, stored or failed, does
\* not end the job: the stage returns, the job goes on to the next stage with
\* no result yet, and the words or the scene list handed on are the ones the
\* write was given; a failed write stores nothing
C26_StorageFailureSwallowed ==
    [][ /\ Len(transcriptWrites') > Len(transcriptWrites) =>
              /\ result' = NoResult
              /\ pc' = "step2"
              /\ 1 \in stagesDone'
              /\ words' = Last(transcriptWrites').content
        /\ Len(chunkedWrites') > Len(chunkedWrites) =>
              /\ result' = NoResult
              /\ pc' \in {"step3", "step4", "s5_assert"}
              /\ stagesDone' # stagesDone
              /\ pc' = "step3" =>
                    /\ scenes' = ChunkScript(words)
                    /\ Last(chunkedWrites').content = scenes'
              /\ pc' = "step4" => Last(chunkedWrites').content = scenesWithPrompts'
              /\ pc' = "s5_assert" => Last(chunkedWrites').content = finalScenes'
        /\ transcriptBucket' = StoredOf(transcriptWrites')
        /\ chunkedBucket' = StoredOf(chunkedWrites')
      ]_vars

\* a job that returned {scenes, video} although every write of an
\* intermediate artifact failed
C26_Witness ==
    /\ pc = "done"
    /\ result = ResultOfReturn(finalScenes, s5.video)
    /\ stagesDone = {1, 2, 3, 4, 5}
    /\ Len(transcriptWrites) = 1
    /\ Len(chunkedWrites) = 3
    /\ ~transcriptWrites[1].stored
    /\ \A k \in 1..3 : ~chunkedWrites[k].stored
    /\ transcriptBucket = <<>>
    /\ chunkedBucket = <<>>

====
